---- MODULE Spec2Model ----
(***************************************************************************)
(* Model of pymc_marketing/mmm/components/adstock.py: the three adstock    *)
(* transformation classes, the ADSTOCK_TRANSFORMATIONS registry and the    *)
(* _get_adstock_function helper.                                           *)
(*                                                                         *)
(* Objects live in a heap (a sequence); an object's identity is its index. *)
(* Python's None is the string "None".  Calls that leave the module        *)
(* (Transformation.__init__, Transformation._sample_curve and the          *)
(* transformers) are recorded with the arguments the module hands them.    *)
(***************************************************************************)
EXTENDS Integers, Sequences, FiniteSets, TLC

VARIABLES classes, ADSTOCK_TRANSFORMATIONS, heap, last

vars == <<classes, ADSTOCK_TRANSFORMATIONS, heap, last>>

(* ---------------------------- bounds ----------------------------------- *)

MaxInstances == 2
MaxLMax == 2

(* ------------------------- small helpers ------------------------------- *)

Range(s) == {s[i] : i \in 1..Len(s)}

EmptyKw == [k \in {} |-> "None"]

Arg(kwargs, name, default) ==
    IF name \in DOMAIN kwargs THEN kwargs[name] ELSE default

SetAttr(obj, name, value) ==
    [obj EXCEPT !.attrs =
        [a \in (DOMAIN obj.attrs) \cup {name} |->
            IF a = name THEN value ELSE obj.attrs[a]]]

(* ------------------------ the class statements ------------------------- *)

ConcreteClasses == <<"GeometricAdstock", "DelayedAdstock", "WeibullAdstock">>

Bases ==
    [c \in Range(ConcreteClasses) \cup {"AdstockTransformation"} |->
        IF c = "AdstockTransformation" THEN "Transformation"
        ELSE "AdstockTransformation"]

RECURSIVE IsSubclass(_, _)
IsSubclass(c, base) ==
    IF c = base THEN TRUE
    ELSE IF c \in DOMAIN Bases THEN IsSubclass(Bases[c], base)
    ELSE FALSE

BetaPrior == [dist |-> "Beta", kwargs |-> [alpha |-> 1, beta |-> 3]]

HalfNormalPrior == [dist |-> "HalfNormal", kwargs |-> [sigma |-> 1]]

ClassAttrsShadowed ==
    [c \in Range(ConcreteClasses) |->
        IF c = "GeometricAdstock"
        THEN [lookup_name |-> "geometric",
              default_priors |-> ("alpha" :> BetaPrior)]
        ELSE IF c = "DelayedAdstock"
        THEN [lookup_name |-> "geometric",
              default_priors |-> ("alpha" :> BetaPrior) @@ ("theta" :> HalfNormalPrior)]
        ELSE [lookup_name |-> "weibull",
              default_priors |-> ("lam" :> HalfNormalPrior) @@ ("k" :> HalfNormalPrior)]]

\* the class attributes set in the three class bodies
ClassAttrs ==
    [c \in Range(ConcreteClasses) |->
        IF c = "GeometricAdstock"
        THEN [lookup_name |-> "geometric",
              default_priors |-> ("alpha" :> BetaPrior)]
        ELSE IF c = "DelayedAdstock"
        THEN [lookup_name |-> "delayed",
              default_priors |-> ("alpha" :> BetaPrior) @@ ("theta" :> HalfNormalPrior)]
        ELSE [lookup_name |-> "weibull",
              default_priors |-> ("lam" :> HalfNormalPrior) @@ ("k" :> HalfNormalPrior)]]

FunctionParamsNoTheta(cls) ==
    IF cls = "GeometricAdstock" THEN <<"self", "x", "alpha">>
    ELSE IF cls = "DelayedAdstock" THEN <<"self", "x", "alpha">>
    ELSE <<"self", "x", "lam", "k">>

\* the parameter list of each class's `function`
FunctionParams(cls) ==
    IF cls = "GeometricAdstock" THEN <<"self", "x", "alpha">>
    ELSE IF cls = "DelayedAdstock" THEN <<"self", "x", "alpha", "theta">>
    ELSE <<"self", "x", "lam", "k">>

\* the keyword parameters of each class's __init__ (self left out)
InitParams(cls) ==
    IF cls = "WeibullAdstock"
    THEN <<"l_max", "normalize", "kind", "mode", "priors", "prefix">>
    ELSE <<"l_max", "normalize", "mode", "priors", "prefix">>

RequiredParamsWithNormalize(cls) == {"l_max", "normalize"}

\* the parameters of __init__ without a default
RequiredParams(cls) == {"l_max"}

(* --------------------------- the registry ------------------------------ *)
(* A dict is a sequence of [key, value] entries in insertion order.        *)

DictContains(d, k) == \E i \in 1..Len(d) : d[i].key = k

DictGet(d, k) == d[CHOOSE i \in 1..Len(d) : d[i].key = k].value

DictKeys(d) == [i \in 1..Len(d) |-> d[i].key]

DictValues(d) == [i \in 1..Len(d) |-> d[i].value]

DictSetItem(d, k, v) ==
    IF DictContains(d, k)
    THEN [i \in 1..Len(d) |-> IF d[i].key = k THEN [key |-> k, value |-> v] ELSE d[i]]
    ELSE Append(d, [key |-> k, value |-> v])

RECURSIVE RegistryComprehension(_, _, _)
\* {cls.lookup_name: cls for cls in clsList}
RegistryComprehension(attrs, clsList, acc) ==
    IF clsList = <<>> THEN acc
    ELSE RegistryComprehension(attrs, Tail(clsList),
             DictSetItem(acc, attrs[Head(clsList)].lookup_name, Head(clsList)))

(* -------------------------- construction ------------------------------- *)

DefaultNormalize == TRUE

DefaultMode == "After"

DefaultKind == "PDF"

NoExc == [type |-> "none", function |-> "None", choices |-> <<>>]

TypeError == [type |-> "TypeError", function |-> "None", choices |-> <<>>]

IndexError == [type |-> "IndexError", function |-> "None", choices |-> <<>>]

\* a bare object of class cls, before __init__ has run
NewObject(cls) ==
    [cls |-> cls, attrs |-> EmptyKw, super_init |-> [priors |-> "None", prefix |-> "None"]]

AdstockTransformation__init__NoNormalize(self, l_max, normalize, mode, priors, prefix) ==
    LET s1 == SetAttr(self, "l_max", l_max)
        s2 == SetAttr(s1, "normalize", DefaultNormalize)
        s3 == SetAttr(s2, "mode", mode)
    IN  [s3 EXCEPT !.super_init = [priors |-> priors, prefix |-> prefix]]

AdstockTransformation__init__(self, l_max, normalize, mode, priors, prefix) ==
    LET s1 == SetAttr(self, "l_max", l_max)
        s2 == SetAttr(s1, "normalize", normalize)
        s3 == SetAttr(s2, "mode", mode)
    IN  [s3 EXCEPT !.super_init = [priors |-> priors, prefix |-> prefix]]

WeibullAdstock__init__(self, l_max, normalize, kind, mode, priors, prefix) ==
    AdstockTransformation__init__(SetAttr(self, "kind", kind),
                                  l_max, normalize, mode, priors, prefix)

\* binding **kwargs to the parameters of cls.__init__
BindsOk(cls, kwargs) ==
    /\ DOMAIN kwargs \subseteq Range(InitParams(cls))
    /\ RequiredParams(cls) \subseteq DOMAIN kwargs

\* cls(**kwargs)
Instantiate(cls, kwargs) ==
    IF ~BindsOk(cls, kwargs)
    THEN [ok |-> FALSE, exc |-> TypeError, obj |-> NewObject(cls)]
    ELSE LET l_max     == kwargs["l_max"]
             normalize == Arg(kwargs, "normalize", DefaultNormalize)
             mode      == Arg(kwargs, "mode", DefaultMode)
             priors    == Arg(kwargs, "priors", "None")
             prefix    == Arg(kwargs, "prefix", "None")
         IN  [ok |-> TRUE, exc |-> NoExc,
              obj |-> IF cls = "WeibullAdstock"
                      THEN WeibullAdstock__init__(NewObject(cls), l_max, normalize,
                               Arg(kwargs, "kind", DefaultKind), mode, priors, prefix)
                      ELSE AdstockTransformation__init__(NewObject(cls), l_max,
                               normalize, mode, priors, prefix)]

(* ----------------------- _get_adstock_function ------------------------- *)

StrArg(name) == [tag |-> "str", name |-> name, ref |-> 0]

ObjArg(ref) == [tag |-> "obj", name |-> "None", ref |-> ref]

NoCall == [callee |-> "none"]

Returned(h, ref, events) ==
    [outcome |-> "return", value |-> ref, exc |-> NoExc, events |-> events,
     call |-> NoCall, heap |-> h]

Raised(h, exc, events) ==
    [outcome |-> "raise", value |-> 0, exc |-> exc, events |-> events,
     call |-> NoCall, heap |-> h]

\* isinstance(function, AdstockTransformation)
IsAdstockInstance(h, function) ==
    /\ function.tag = "obj"
    /\ IsSubclass(h[function.ref].cls, "AdstockTransformation")

UnknownAdstockErrorClassNames(reg, function) ==
    [type |-> "ValueError", function |-> function.name, choices |-> DictValues(reg)]

\* ValueError(f"Unknown adstock function: {function}. Choose from {list(keys)}")
UnknownAdstockError(reg, function) ==
    [type |-> "ValueError", function |-> function.name, choices |-> DictKeys(reg)]

ShouldWarnAlways(kwargs) == TRUE

\* if kwargs:
ShouldWarn(kwargs) == DOMAIN kwargs # {}

InstanceBranchCopy(h, function, kwargs) ==
    Returned(Append(h, h[function.ref]), Len(h) + 1, <<>>)

InstanceBranchUpdate(h, function, kwargs) ==
    Returned([h EXCEPT ![function.ref].attrs =
                 [a \in DOMAIN @ |-> IF a \in DOMAIN kwargs THEN kwargs[a] ELSE @[a]]],
             function.ref, <<>>)

\* return function
InstanceBranch(h, function, kwargs) == Returned(h, function.ref, <<>>)

\* return ADSTOCK_TRANSFORMATIONS[function](**kwargs)
ConstructBranch(h, reg, function, kwargs, events) ==
    LET r == Instantiate(DictGet(reg, function.name), kwargs)
    IN  IF r.ok
        THEN Returned(Append(h, r.obj), Len(h) + 1, Append(events, "construct"))
        ELSE Raised(h, r.exc, Append(events, "construct"))

_get_adstock_function(h, reg, function, kwargs) ==
    IF IsAdstockInstance(h, function)
    THEN InstanceBranch(h, function, kwargs)
    ELSE IF ~DictContains(reg, function.name)
    THEN Raised(h, UnknownAdstockError(reg, function), <<"validate">>)
    ELSE IF ShouldWarn(kwargs)
    THEN ConstructBranch(h, reg, function, kwargs, <<"validate", "warn">>)
    ELSE ConstructBranch(h, reg, function, kwargs, <<"validate">>)

(* ---------------------------- sample_curve ---------------------------- *)

DefaultAmount == 1

arangeFromOne(start, stop) == [i \in 1..(stop - start - 1) |-> start + i]

\* np.arange(start, stop)
arange(start, stop) == [i \in 1..(stop - start) |-> start + i - 1]

\* np.zeros(n)
zeros(n) == [i \in 1..n |-> 0]

\* AdstockTransformation.sample_curve(self, parameters, amount=1.0);
\* amountArgs is <<>> when amount is left to its default
sample_curve(h, self, parameters, amountArgs) ==
    LET amount     == IF amountArgs = <<>> THEN DefaultAmount ELSE amountArgs[1]
        l_max      == h[self].attrs["l_max"]
        time_since == arange(0, l_max)
        coords     == [name |-> "time since exposure", values |-> time_since]
        x          == zeros(l_max)
    IN  IF Len(x) = 0
        THEN Raised(h, IndexError, <<>>)
        ELSE [outcome |-> "return", value |-> 0, exc |-> NoExc, events |-> <<>>,
              call |-> [callee |-> "_sample_curve", self |-> self,
                        var_name |-> "adstock", parameters |-> parameters,
                        x |-> [x EXCEPT ![1] = amount], coords |-> coords],
              heap |-> h]

(* ------------------------------ function ------------------------------- *)

\* GeometricAdstock.function(self, x, alpha)
GeometricFunction(obj, x, alpha) ==
    [callee |-> "geometric_adstock", args |-> <<x>>,
     kwargs |-> ("alpha" :> alpha) @@ ("l_max" :> obj.attrs["l_max"])
                @@ ("normalize" :> obj.attrs["normalize"])
                @@ ("mode" :> obj.attrs["mode"])]

\* DelayedAdstock.function(self, x, alpha, theta)
DelayedFunction(obj, x, alpha, theta) ==
    [callee |-> "delayed_adstock", args |-> <<x>>,
     kwargs |-> ("alpha" :> alpha) @@ ("theta" :> theta)
                @@ ("l_max" :> obj.attrs["l_max"])
                @@ ("normalize" :> obj.attrs["normalize"])
                @@ ("mode" :> obj.attrs["mode"])]

WeibullFunctionWithNormalize(obj, x, lam, k) ==
    [callee |-> "weibull_adstock", args |-> <<>>,
     kwargs |-> ("x" :> x) @@ ("lam" :> lam) @@ ("k" :> k)
                @@ ("l_max" :> obj.attrs["l_max"])
                @@ ("normalize" :> obj.attrs["normalize"])
                @@ ("mode" :> obj.attrs["mode"])
                @@ ("type" :> obj.attrs["kind"])]

\* WeibullAdstock.function(self, x, lam, k)
WeibullFunction(obj, x, lam, k) ==
    [callee |-> "weibull_adstock", args |-> <<>>,
     kwargs |-> ("x" :> x) @@ ("lam" :> lam) @@ ("k" :> k)
                @@ ("l_max" :> obj.attrs["l_max"])
                @@ ("mode" :> obj.attrs["mode"])
                @@ ("type" :> obj.attrs["kind"])]

\* self.function(x, *params), dispatched on the class of self
function(h, self, x, params) ==
    LET obj == h[self]
    IN  [outcome |-> "return", value |-> 0, exc |-> NoExc, events |-> <<>>,
         call |-> IF obj.cls = "GeometricAdstock"
                  THEN GeometricFunction(obj, x, params[1])
                  ELSE IF obj.cls = "DelayedAdstock"
                  THEN DelayedFunction(obj, x, params[1], params[2])
                  ELSE WeibullFunction(obj, x, params[1], params[2]),
         heap |-> h]

(* ------------------------------ inputs --------------------------------- *)

Names == {"geometric", "delayed", "weibull", "logistic"}

KwargsMenu ==
    { EmptyKw,
      ("adstock_max_lag" :> 4),
      ("l_max" :> 1),
      ("l_max" :> 1) @@ ("normalize" :> FALSE),
      ("l_max" :> 0) @@ ("normalize" :> TRUE) @@ ("kind" :> "CDF"),
      ("l_max" :> MaxLMax) @@ ("normalize" :> FALSE) @@ ("mode" :> "Before")
          @@ ("prefix" :> "custom") }

ParameterSets == {"prior", "posterior"}

AmountArgs == {<<>>, <<5>>}

Xs == {"x1"}

ParamValues == {"p1", "p2"}

FunctionArgs(h) == {StrArg(n) : n \in Names} \cup {ObjArg(i) : i \in 1..Len(h)}

(* --------------------------- state machine ----------------------------- *)

NoArgs == [none |-> TRUE]

Init ==
    /\ classes = ClassAttrs
    /\ ADSTOCK_TRANSFORMATIONS = RegistryComprehension(ClassAttrs, ConcreteClasses, <<>>)
    /\ heap = <<>>
    /\ last = [op |-> "none", args |-> NoArgs, outcome |-> "none", value |-> 0,
               exc |-> NoExc, events |-> <<>>, call |-> NoCall, created |-> 0]

\* the effect of a finished call: the heap it leaves and the record of the call
Finish(op, args, r) ==
    /\ Len(r.heap) <= MaxInstances
    /\ heap' = r.heap
    /\ last' = [op |-> op, args |-> args, outcome |-> r.outcome, value |-> r.value,
                exc |-> r.exc, events |-> r.events, call |-> r.call,
                created |-> Len(r.heap) - Len(heap)]
    /\ UNCHANGED <<classes, ADSTOCK_TRANSFORMATIONS>>

\* Cls(**kwargs) called directly
Construct ==
    \E cls \in Range(ConcreteClasses), kwargs \in KwargsMenu :
        LET r == Instantiate(cls, kwargs)
        IN  Finish("construct", [cls |-> cls, kwargs |-> kwargs],
                   IF r.ok THEN Returned(Append(heap, r.obj), Len(heap) + 1, <<"construct">>)
                   ELSE Raised(heap, r.exc, <<"construct">>))

GetAdstockFunction ==
    \E fn \in FunctionArgs(heap), kwargs \in KwargsMenu :
        Finish("get", [function |-> fn, kwargs |-> kwargs],
               _get_adstock_function(heap, ADSTOCK_TRANSFORMATIONS, fn, kwargs))

SampleCurve ==
    \E self \in 1..Len(heap), parameters \in ParameterSets, amountArgs \in AmountArgs :
        Finish("sample_curve",
               [self |-> self, parameters |-> parameters, amount |-> amountArgs],
               sample_curve(heap, self, parameters, amountArgs))

Function ==
    \E self \in 1..Len(heap), x \in Xs :
        \E params \in [1..(Len(FunctionParams(heap[self].cls)) - 2) -> ParamValues] :
            Finish("function", [self |-> self, x |-> x, params |-> params],
                   function(heap, self, x, params))

Next ==
    \/ Construct
    \/ GetAdstockFunction
    \/ SampleCurve
    \/ Function

Spec == Init /\ [][Next]_vars

(* ------------------------------ claims --------------------------------- *)

RegisteredNames == {"geometric", "delayed", "weibull"}

Warned == "warn" \in Range(last.events)

IsNameCall == last.op = "get" /\ last.args.function.tag = "str"

IsInstanceCall == last.op = "get" /\ last.args.function.tag = "obj"

\* C1: a lookup whose first argument is a name outside the registry, with any
\* keyword arguments, ends in a ValueError that carries the rejected name and
\* the list of registry keys; nothing is constructed and nothing is returned.
C1_UnknownNameRaisesValueError ==
    (IsNameCall /\ last.args.function.name \notin RegisteredNames)
    => /\ last.outcome = "raise"
       /\ last.exc.type = "ValueError"
       /\ last.exc.function = last.args.function.name
       /\ last.exc.choices = <<"geometric", "delayed", "weibull">>
       /\ last.exc.choices = DictKeys(ADSTOCK_TRANSFORMATIONS)
       /\ last.created = 0
       /\ last.value = 0
       /\ "construct" \notin Range(last.events)

C1_Witness ==
    /\ IsNameCall
    /\ last.args.function.name = "logistic"
    /\ "l_max" \in DOMAIN last.args.kwargs
    /\ last.exc.type = "ValueError"
    /\ Len(heap) >= 1

\* C2 as stated: every lookup whose first argument is an instance or a
\* registered name, for every set of keyword arguments including the empty
\* one, completes without raising and returns a transformation.
C2_RegisteredLookupNeverRaises ==
    (last.op = "get"
        /\ (last.args.function.tag = "obj" \/ last.args.function.name \in RegisteredNames))
    => /\ last.outcome = "return"
       /\ last.value \in 1..Len(heap)

\* C2 as amended: a lookup whose first argument is an instance (any keyword
\* arguments), or a registered name with keyword arguments that contain l_max
\* and only keywords among l_max, normalize, mode (and kind for weibull),
\* completes without raising and returns a transformation.
C2_AcceptedLookupNeverRaises ==
    (last.op = "get"
        /\ \/ last.args.function.tag = "obj"
           \/ /\ last.args.function.name \in RegisteredNames
              /\ "l_max" \in DOMAIN last.args.kwargs
              /\ DOMAIN last.args.kwargs \subseteq
                     {"l_max", "normalize", "mode"} \cup
                     (IF last.args.function.name = "weibull" THEN {"kind"} ELSE {}))
    => /\ last.outcome = "return"
       /\ last.value \in 1..Len(heap)

C2_Witness ==
    /\ IsNameCall
    /\ last.args.function.name = "geometric"
    /\ DOMAIN last.args.kwargs = {"l_max", "normalize"}
    /\ last.outcome = "return"

ExpectedClass(name) ==
    IF name = "geometric" THEN "GeometricAdstock"
    ELSE IF name = "delayed" THEN "DelayedAdstock"
    ELSE "WeibullAdstock"

\* C3: a lookup by registered name that the constructor accepts returns a newly
\* constructed instance of exactly the registered class, equal to the one direct
\* construction gives: l_max, normalize, mode (and kind for weibull) are the
\* values of the keyword arguments, or the defaults normalize=True,
\* mode=After, kind=PDF when absent; its identity is new, so two lookups of the
\* same name give two distinct instances.
C3_LookupEqualsConstruction ==
    (IsNameCall /\ last.outcome = "return")
    => LET K   == last.args.kwargs
           n   == last.args.function.name
           obj == heap[last.value]
       IN  /\ n \in RegisteredNames
           /\ last.created = 1
           /\ last.value = Len(heap)
           /\ obj.cls = ExpectedClass(n)
           /\ obj.attrs["l_max"] = K["l_max"]
           /\ obj.attrs["normalize"] =
                  (IF "normalize" \in DOMAIN K THEN K["normalize"] ELSE TRUE)
           /\ obj.attrs["mode"] = (IF "mode" \in DOMAIN K THEN K["mode"] ELSE "After")
           /\ (n = "weibull") =>
                  obj.attrs["kind"] = (IF "kind" \in DOMAIN K THEN K["kind"] ELSE "PDF")
           /\ obj = Instantiate(ExpectedClass(n), K).obj

C3_Witness ==
    /\ IsNameCall
    /\ last.outcome = "return"
    /\ last.args.function.name = "weibull"
    /\ "normalize" \in DOMAIN last.args.kwargs
    /\ Len(heap) = 2
    /\ last.value = 2
    /\ heap[1] = heap[2]

\* C4: the registry has exactly three entries, each key is the lookup_name of
\* the class it maps to (geometric, delayed, weibull in that order of
\* insertion), the lookup names are pairwise distinct and every value is a
\* subclass of AdstockTransformation.
C4_RegistryMatchesLookupNames ==
    /\ Len(ADSTOCK_TRANSFORMATIONS) = 3
    /\ Cardinality({classes[c].lookup_name : c \in Range(ConcreteClasses)}) = 3
    /\ \A i \in 1..Len(ADSTOCK_TRANSFORMATIONS) :
           /\ ADSTOCK_TRANSFORMATIONS[i].key =
                  classes[ADSTOCK_TRANSFORMATIONS[i].value].lookup_name
           /\ IsSubclass(ADSTOCK_TRANSFORMATIONS[i].value, "AdstockTransformation")
    /\ \A n \in RegisteredNames :
           /\ DictContains(ADSTOCK_TRANSFORMATIONS, n)
           /\ DictGet(ADSTOCK_TRANSFORMATIONS, n) = ExpectedClass(n)

C4_Witness ==
    /\ IsNameCall
    /\ last.args.function.name = "delayed"
    /\ last.outcome = "return"
    /\ heap[last.value].cls = "DelayedAdstock"

\* C5: for each registered class the parameters of its function other than
\* self and x are exactly the keys of its default_priors: {alpha}, {alpha,
\* theta} and {lam, k}.
C5_FunctionParamsMatchPriors ==
    /\ \A i \in 1..Len(ADSTOCK_TRANSFORMATIONS) :
           LET c == ADSTOCK_TRANSFORMATIONS[i].value
           IN  Range(FunctionParams(c)) \ {"self", "x"} = DOMAIN classes[c].default_priors
    /\ DOMAIN classes["GeometricAdstock"].default_priors = {"alpha"}
    /\ DOMAIN classes["DelayedAdstock"].default_priors = {"alpha", "theta"}
    /\ DOMAIN classes["WeibullAdstock"].default_priors = {"lam", "k"}

C5_Witness ==
    /\ last.op = "function"
    /\ heap[last.args.self].cls = "DelayedAdstock"
    /\ DOMAIN classes["DelayedAdstock"].default_priors \subseteq DOMAIN last.call.kwargs

\* C6: no operation of the module changes the registry, a class's
\* default_priors or lookup_name, or any attribute of an instance that already
\* exists; the heap only grows.
C6_RecordsImmutable ==
    [][/\ ADSTOCK_TRANSFORMATIONS' = ADSTOCK_TRANSFORMATIONS
       /\ classes' = classes
       /\ Len(heap') >= Len(heap)
       /\ \A i \in 1..Len(heap) : heap'[i] = heap[i]]_vars

C6_Witness ==
    /\ IsInstanceCall
    /\ "normalize" \in DOMAIN last.args.kwargs
    /\ last.args.kwargs["normalize"] # heap[last.args.function.ref].attrs["normalize"]
    /\ Len(heap) = 2

\* C7: a lookup whose first argument is an instance returns that very instance
\* whatever the keyword arguments are: it returns, the result has the identity
\* of the argument, nothing is constructed, no object changes, no warning is
\* emitted, and the lookup applied to its own result returns it again.
C7_InstancePassedThrough ==
    [][(last'.op = "get" /\ last'.args.function.tag = "obj")
       => /\ last'.outcome = "return"
          /\ last'.value = last'.args.function.ref
          /\ last'.created = 0
          /\ heap' = heap
          /\ "warn" \notin Range(last'.events)
          /\ \A K \in KwargsMenu :
                 LET again == _get_adstock_function(heap', ADSTOCK_TRANSFORMATIONS',
                                  ObjArg(last'.value), K)
                 IN  again.outcome = "return" /\ again.value = last'.value
                         /\ again.heap = heap']_vars

C7_Witness ==
    /\ IsInstanceCall
    /\ "adstock_max_lag" \in DOMAIN last.args.kwargs
    /\ last.outcome = "return"
    /\ last.value = last.args.function.ref

C9_SampleCurveUnitImpulse ==
    (last.op = "sample_curve" /\ heap[last.args.self].attrs["l_max"] >= 1)
    => LET l_max  == heap[last.args.self].attrs["l_max"]
           amount == IF last.args.amount = <<>> THEN 1 ELSE last.args.amount[1]
           c      == last.call
       IN  /\ last.outcome = "return"
           /\ c.callee = "_sample_curve"
           /\ c.self = last.args.self
           /\ Len(c.x) = l_max
           /\ c.x[1] = amount
           /\ \A i \in 2..l_max : c.x[i] = 0
           /\ c.coords.name = "time since exposure"
           /\ Len(c.coords.values) = l_max
           /\ \A i \in 1..l_max : c.coords.values[i] = i - 1
           /\ Len(c.x) = Len(c.coords.values)
           /\ c.parameters = last.args.parameters
           /\ c.var_name = "adstock"

C9_Witness ==
    /\ last.op = "sample_curve"
    /\ heap[last.args.self].attrs["l_max"] = MaxLMax
    /\ last.args.amount = <<5>>
    /\ last.call.callee = "_sample_curve"
    /\ last.call.x[1] = 5

DifferOnlyInNormalize(a, b) ==
    /\ a.cls = b.cls
    /\ a.super_init = b.super_init
    /\ DOMAIN a.attrs = DOMAIN b.attrs
    /\ \A k \in DOMAIN a.attrs \ {"normalize"} : a.attrs[k] = b.attrs[k]
    /\ a.attrs["normalize"] # b.attrs["normalize"]

\* C10: every variant's function forwards the instance's l_max and mode to its
\* transformer; GeometricAdstock and DelayedAdstock forward normalize too;
\* WeibullAdstock forwards kind as type and passes no normalize, so two
\* WeibullAdstock instances that differ only in normalize issue the same
\* weibull_adstock call for the same x, lam and k.
C10_FunctionForwardsConfiguration ==
    /\ (last.op = "function")
       => LET obj == heap[last.args.self]
              kw  == last.call.kwargs
          IN  /\ kw["l_max"] = obj.attrs["l_max"]
              /\ kw["mode"] = obj.attrs["mode"]
              /\ (obj.cls = "GeometricAdstock")
                     => (last.call.callee = "geometric_adstock"
                             /\ kw["normalize"] = obj.attrs["normalize"])
              /\ (obj.cls = "DelayedAdstock")
                     => (last.call.callee = "delayed_adstock"
                             /\ kw["normalize"] = obj.attrs["normalize"])
              /\ (obj.cls = "WeibullAdstock")
                     => (last.call.callee = "weibull_adstock"
                             /\ kw["type"] = obj.attrs["kind"]
                             /\ "normalize" \notin DOMAIN kw)
    /\ \A i, j \in 1..Len(heap) :
           (heap[i].cls = "WeibullAdstock" /\ DifferOnlyInNormalize(heap[i], heap[j]))
           => \A x \in Xs, params \in [1..2 -> ParamValues] :
                  function(heap, i, x, params).call = function(heap, j, x, params).call

C10_Witness ==
    /\ last.op = "function"
    /\ heap[last.args.self].cls = "WeibullAdstock"
    /\ last.call.callee = "weibull_adstock"
    /\ \E j \in 1..Len(heap) : DifferOnlyInNormalize(heap[last.args.self], heap[j])

====
